---- MODULE Spec2Model ----
(***************************************************************************)
(* Model of scripts/wait-for-ci.py: main() reads its configuration from    *)
(* the environment, then polls the check-runs of one commit up to          *)
(* max_retries times, classifying every required check of each response as *)
(* satisfied, pending or missing.                                          *)
(*                                                                         *)
(* Environment values are sequences of one-character strings, so that      *)
(* str.split and slicing are computed; check-run names, statuses and       *)
(* conclusions are strings, and the f-strings are built with \o.           *)
(***************************************************************************)
EXTENDS Integers, Sequences, FiniteSets, TLC

\* ------------------------------------------------------------------ constants

\* REQUIRED_CHECKS, wait-for-ci.py:13-18.
REQUIRED_CHECKS ==
    <<"Lint & Type Check", "Server Tests", "Client Tests", "Build Check">>

\* max_retries, wait-for-ci.py:40.
max_retries == 30

\* The longest run of further records that precedes a response's listing.
MaxExtra == 1

\* --------------------------------------------------------- python values

\* Optional[str] of the environment: None, or a string of characters.
None == [is_none |-> TRUE, str |-> <<>>]
Some(s) == [is_none |-> FALSE, str |-> s]

\* bool(v) for an Optional[str]: None and "" are falsy.
Truthy(v) == ~v.is_none /\ v.str # <<>>

\* `a or b`.
PyOr(a, b) == IF Truthy(a) THEN a ELSE b

\* A JSON value that is null or a string (the conclusion of a check-run).
JNull == [is_null |-> TRUE, str |-> ""]
JStr(s) == [is_null |-> FALSE, str |-> s]

\* str(v) as an f-string renders it: None for null.
Fmt(v) == IF v.is_null THEN "None" ELSE v.str

\* "".join(chars): a sequence of characters as one string.
RECURSIVE Str(_)
Str(s) == IF s = <<>> THEN "" ELSE Head(s) \o Str(Tail(s))

\* s[:n].
Prefix(s, n) == SubSeq(s, 1, IF Len(s) < n THEN Len(s) ELSE n)

\* str.split(sep): the segments between the separators, never empty.
RECURSIVE SplitFrom(_, _, _, _)
SplitFrom(s, sep, cur, acc) ==
    IF s = <<>> THEN Append(acc, cur)
    ELSE IF Head(s) = sep THEN SplitFrom(Tail(s), sep, <<>>, Append(acc, cur))
    ELSE SplitFrom(Tail(s), sep, Append(cur, Head(s)), acc)

Split(s, sep) == SplitFrom(s, sep, <<>>, <<>>)

\* seq[-1].
Last(seq) == seq[Len(seq)]

\* sep.join(list).
RECURSIVE Join(_, _)
Join(list, sep) ==
    IF list = <<>> THEN ""
    ELSE IF Len(list) = 1 THEN list[1]
    ELSE list[1] \o sep \o Join(Tail(list), sep)

\* ------------------------------------------------------------ environment

EnvKeys ==
    {"GITHUB_TOKEN", "GITHUB_REPOSITORY_OWNER", "GITHUB_REPOSITORY_NAME",
     "GITHUB_REPOSITORY", "GITHUB_SHA"}

\* The values each variable takes when it is set.
EnvValues ==
    [GITHUB_TOKEN |-> {<<>>, <<"t">>},
     GITHUB_REPOSITORY_OWNER |-> {<<"o">>},
     GITHUB_REPOSITORY_NAME |-> {<<"x">>},
     GITHUB_REPOSITORY |-> {<<"o", "/", "r", "/", "s">>},
     GITHUB_SHA |-> {<<"0", "1", "2", "3", "4", "5", "6", "7", "8">>}]

EnvStrings == UNION {EnvValues[k] : k \in EnvKeys}

\* os.environ: a mapping from the variables that are set to their values.
Environs ==
    UNION {{e \in [D -> EnvStrings] : \A k \in D : e[k] \in EnvValues[k]} :
           D \in SUBSET EnvKeys}

\* os.environ.get(k) and os.environ.get(k, default).
EnvGet(env, k) == IF k \in DOMAIN env THEN Some(env[k]) ELSE None
EnvGetDefault(env, k, d) == IF k \in DOMAIN env THEN env[k] ELSE d

\* Mutant: the combined name is taken apart as owner/repo, index 1.
RepoOf_SecondSegment(env) ==
    PyOr(EnvGet(env, "GITHUB_REPOSITORY_NAME"),
         LET parts == Split(EnvGetDefault(env, "GITHUB_REPOSITORY", <<>>), "/")
         IN Some(IF Len(parts) >= 2 THEN parts[2] ELSE <<>>))

\* wait-for-ci.py:23.
RepoOf(env) ==
    PyOr(EnvGet(env, "GITHUB_REPOSITORY_NAME"),
         Some(Last(Split(EnvGetDefault(env, "GITHUB_REPOSITORY", <<>>), "/"))))

\* --------------------------------------------------------------- responses

OtherCheck == "Deploy Preview"

Run(n, s, c) == [name |-> n, status |-> s, conclusion |-> c]

\* What the listing of a response says of one required check.
Absent == <<"absent", JNull>>
ListedStates ==
    {<<"in_progress", JNull>>,
     <<"completed", JStr("success")>>,
     <<"completed", JStr("failure")>>}

\* The check-runs of a listing, in the order of names.
RECURSIVE Listing(_, _)
Listing(names, f) ==
    IF names = <<>> THEN <<>>
    ELSE IF f[Head(names)] = Absent THEN Listing(Tail(names), f)
    ELSE <<Run(Head(names), f[Head(names)][1], f[Head(names)][2])>>
         \o Listing(Tail(names), f)

RequiredSet == {REQUIRED_CHECKS[i] : i \in DOMAIN REQUIRED_CHECKS}

\* Further records of a response: a run of a check that is not required, and
\* runs of a required check that the listing may repeat or leave out.
ExtraRuns ==
    {Run(OtherCheck, "completed", JStr("failure")),
     Run("Server Tests", "completed", JStr("success")),
     Run("Server Tests", "in_progress", JStr("success")),
     Run("Server Tests", "completed", JNull)}

ExtraSeqs == UNION {[1..n -> ExtraRuns] : n \in 0..MaxExtra}

CheckRunLists ==
    {x \o Listing(REQUIRED_CHECKS, f) :
        x \in ExtraSeqs, f \in [RequiredSet -> ListedStates \cup {Absent}]}

\* response.json(): the body with its check_runs, or a body without the key.
Bodies ==
    {[total_count |-> Len(l), check_runs |-> l] : l \in CheckRunLists}
    \cup {[total_count |-> 0]}

\* How a request can end: a status code, or no response at all.
StatusCodes == {200, 404, 500}

\* Locals that are not bound yet: a record (response, data, headers and the
\* dict checks), a list (pending, missing) and a string (url).  Each is a
\* value of the kind the local holds once bound, and one it never holds.
Unbound == [unbound |-> TRUE]
UnboundList == <<"<unbound>">>
UnboundStr == "<unbound>"

\* ------------------------------------------------------------------- state

VARIABLES
    environ,      \* os.environ
    pc,           \* "start", "request", "classify", "decide", "sleep", "done"
    token, owner, repo, sha,    \* wait-for-ci.py:21-24
    headers, url,               \* wait-for-ci.py:30-35
    attempt,      \* the loop variable of line 41
    response,     \* the requests.Response of line 42
    data,         \* line 44
    checks,       \* line 46
    pending,      \* line 48
    missing,      \* line 49
    stdout,       \* the lines printed in the current iteration (before the
                  \* loop: by the start-up code)
    exit_code,    \* the exit status of the process, -1 while it runs
    exception,    \* the uncaught exception that ended the process, or ""
    outcome,      \* how main() ended: "running", "config_error", "success",
                  \* "transport_error" or "timeout"
    requests,     \* the number of requests.get calls made so far
    sleeps,       \* the number of time.sleep calls made so far
    first_green,  \* history: the number of the first response in which every
                  \* required check was completed/success, 0 while there is none
    ever_green    \* history, kept by SpecHistory only: the required checks
                  \* that some response so far showed completed/success

vars ==
    <<environ, pc, token, owner, repo, sha, headers, url, attempt, response,
      data, checks, pending, missing, stdout, exit_code, exception, outcome,
      requests, sleeps, first_green, ever_green>>

config == <<token, owner, repo, sha, headers, url>>
locals == <<response, data, checks, pending, missing>>

Init ==
    /\ environ \in Environs
    /\ pc = "start"
    /\ token = None /\ owner = None /\ repo = None /\ sha = None
    /\ headers = Unbound /\ url = UnboundStr
    /\ attempt = 0
    /\ response = Unbound /\ data = Unbound /\ checks = Unbound
    /\ pending = UnboundList /\ missing = UnboundList
    /\ stdout = <<>>
    /\ exit_code = -1
    /\ exception = ""
    /\ outcome = "running"
    /\ requests = 0
    /\ sleeps = 0
    /\ first_green = 0
    /\ ever_green = {}

\* ------------------------------------------------------------ start-up code

\* Mutant: the credential is left out of the test of line 26.
AllSet_ForgetsToken(t, o, r, s) == Truthy(o) /\ Truthy(r) /\ Truthy(s)

\* all([token, owner, repo, sha]), line 26.
AllSet(t, o, r, s) == Truthy(t) /\ Truthy(o) /\ Truthy(r) /\ Truthy(s)

\* Line 35 (GITHUB_API is the constant prefix of every URL).
UrlOf(o, r, s) ==
    "https://api.github.com" \o "/repos/" \o Str(o.str) \o "/" \o Str(r.str)
        \o "/commits/" \o Str(s.str) \o "/check-runs"

\* Lines 30-33.
HeadersOf(t) ==
    [Authorization |-> "Bearer " \o Str(t.str),
     Accept |-> "application/vnd.github+json"]

\* Lines 21-24: the four inputs are read from the environment.
ReadEnv ==
    /\ token' = EnvGet(environ, "GITHUB_TOKEN")
    /\ owner' = EnvGet(environ, "GITHUB_REPOSITORY_OWNER")
    /\ repo' = RepoOf(environ)
    /\ sha' = EnvGet(environ, "GITHUB_SHA")

\* Mutant: the message of line 27 is printed but sys.exit(1) is not called;
\* main() goes on to the loop with what it has.
ConfigMissing_NoExit ==
    /\ pc = "start"
    /\ ReadEnv
    /\ ~AllSet(token', owner', repo', sha')
    /\ stdout' = <<"Missing required env vars: GITHUB_TOKEN, GITHUB_REPOSITORY_OWNER, GITHUB_REPOSITORY, GITHUB_SHA">>
    /\ attempt' = 0
    /\ pc' = "request"
    /\ UNCHANGED <<environ, ever_green, headers, url, locals, exit_code, exception, outcome,
                   requests, sleeps, first_green>>

\* Lines 21-28 when an input is missing: one line is printed, exit status 1.
ConfigMissing ==
    /\ pc = "start"
    /\ ReadEnv
    /\ ~AllSet(token', owner', repo', sha')
    /\ stdout' = <<"Missing required env vars: GITHUB_TOKEN, GITHUB_REPOSITORY_OWNER, GITHUB_REPOSITORY, GITHUB_SHA">>
    /\ exit_code' = 1
    /\ outcome' = "config_error"
    /\ pc' = "done"
    /\ UNCHANGED <<environ, ever_green, headers, url, attempt, locals, exception, requests,
                   sleeps, first_green>>

\* Lines 21-41 when every input is there: the loop is entered with attempt 0.
ConfigOk ==
    /\ pc = "start"
    /\ ReadEnv
    /\ AllSet(token', owner', repo', sha')
    /\ headers' = HeadersOf(token')
    /\ url' = UrlOf(owner', repo', sha')
    /\ stdout' =
          <<"Checking required checks for " \o Str(owner'.str) \o "/"
                \o Str(repo'.str) \o "@" \o Str(Prefix(sha'.str, 7)),
            "Required: " \o Join(REQUIRED_CHECKS, ", ")>>
    /\ attempt' = 0
    /\ pc' = "request"
    /\ UNCHANGED <<environ, ever_green, locals, exit_code, exception, outcome, requests,
                   sleeps, first_green>>

\* ------------------------------------------------- what a response says

\* data.get("check_runs", []), line 46.
CheckRunsOf(d) == IF "check_runs" \in DOMAIN d THEN d.check_runs ELSE <<>>

\* The response has a record of the check n.
HasRun(l, n) == \E i \in DOMAIN l : l[i].name = n

\* The record of n that comes last in the response.
LastRun(l, n) ==
    l[CHOOSE i \in DOMAIN l :
        /\ l[i].name = n
        /\ \A j \in DOMAIN l : l[j].name = n => j <= i]

Green(r) == r.status = "completed" /\ r.conclusion = JStr("success")

\* Every required check is completed/success in the response.
AllGreen(l) == \A n \in RequiredSet : HasRun(l, n) /\ Green(LastRun(l, n))

\* ----------------------------------------------------------------- request

\* response.raise_for_status(), line 43: 4xx and 5xx raise HTTPError.
RaisesForStatus(code) == 400 <= code /\ code < 600

\* The body of an error response.
ErrorBody == [message |-> "error"]

\* Line 42 when requests.get itself raises: no response, the exception ends
\* the process with exit status 1.
RequestRaises ==
    /\ pc = "request"
    /\ requests' = requests + 1
    /\ exception' = "ConnectionError"
    /\ exit_code' = 1
    /\ outcome' = "transport_error"
    /\ pc' = "done"
    /\ UNCHANGED <<environ, ever_green, config, attempt, locals, stdout, sleeps, first_green>>

\* Mutant: raise_for_status is not called; the error body is taken as data
\* and the attempt goes on like one whose checks are not there yet.
RequestError_Swallowed ==
    /\ pc = "request"
    /\ \E code \in StatusCodes :
          /\ RaisesForStatus(code)
          /\ response' = [status_code |-> code, body |-> ErrorBody]
    /\ data' = ErrorBody
    /\ requests' = requests + 1
    /\ pc' = "classify"
    /\ UNCHANGED <<environ, ever_green, config, attempt, checks, pending, missing, stdout,
                   exit_code, exception, outcome, sleeps, first_green>>

\* Lines 42-43 when the response has an error status: raise_for_status raises.
RequestError ==
    /\ pc = "request"
    /\ \E code \in StatusCodes :
          /\ RaisesForStatus(code)
          /\ response' = [status_code |-> code, body |-> ErrorBody]
    /\ requests' = requests + 1
    /\ exception' = "HTTPError"
    /\ exit_code' = 1
    /\ outcome' = "transport_error"
    /\ pc' = "done"
    /\ UNCHANGED <<environ, ever_green, config, attempt, data, checks, pending, missing,
                   stdout, sleeps, first_green>>

\* Lines 42-44 when the request succeeds: data is the body of the response.
RequestOk ==
    /\ pc = "request"
    /\ \E code \in StatusCodes, body \in Bodies :
          /\ ~RaisesForStatus(code)
          /\ response' = [status_code |-> code, body |-> body]
          /\ data' = body
    /\ requests' = requests + 1
    /\ first_green' =
          IF first_green = 0 /\ AllGreen(CheckRunsOf(data'))
          THEN requests' ELSE first_green
    /\ pc' = "classify"
    /\ UNCHANGED <<environ, ever_green, config, attempt, checks, pending, missing, stdout,
                   exit_code, exception, outcome, sleeps>>

\* The bodies that are a plain listing: at most one record for each required
\* check, and no other record.
ListedBodies ==
    {[total_count |-> Len(Listing(REQUIRED_CHECKS, f)),
      check_runs |-> Listing(REQUIRED_CHECKS, f)] :
        f \in [RequiredSet -> ListedStates \cup {Absent}]}

\* The required checks a response shows completed/success.
GreenNames(l) == {n \in RequiredSet : HasRun(l, n) /\ Green(LastRun(l, n))}

\* Lines 42-44 as in RequestOk, for a body that is a plain listing, with the
\* history of the checks that have been green.
RequestOkTracked ==
    /\ pc = "request"
    /\ \E code \in StatusCodes, body \in ListedBodies :
          /\ ~RaisesForStatus(code)
          /\ response' = [status_code |-> code, body |-> body]
          /\ data' = body
    /\ requests' = requests + 1
    /\ first_green' =
          IF first_green = 0 /\ AllGreen(CheckRunsOf(data'))
          THEN requests' ELSE first_green
    /\ ever_green' = ever_green \cup GreenNames(CheckRunsOf(data'))
    /\ pc' = "classify"
    /\ UNCHANGED <<environ, config, attempt, checks, pending, missing, stdout,
                   exit_code, exception, outcome, sleeps>>

\* ---------------------------------------------------------- classification

\* Mutant: the first record of a name is kept (dict.setdefault).
DictPut_KeepsFirst(d, k, v) ==
    IF k \in DOMAIN d THEN d
    ELSE [x \in DOMAIN d \cup {k} |-> IF x = k THEN v ELSE d[x]]

\* d[k] = v on a dict.
DictPut(d, k, v) == [x \in DOMAIN d \cup {k} |-> IF x = k THEN v ELSE d[x]]

\* {run["name"]: run for run in runs}, line 46: a later run replaces an
\* earlier one of the same name.
RECURSIVE DictOf(_, _)
DictOf(runs, d) ==
    IF runs = <<>> THEN d
    ELSE DictOf(Tail(runs), DictPut(d, Head(runs).name, Head(runs)))

ChecksOf(d) == DictOf(CheckRunsOf(d), <<>>)

\* Mutant: line 57 is an `if`, not an `elif`: a check that is not completed
\* is also tested for its conclusion.
ClassifyOne_IfNotElif(name, cs, pm) ==
    IF name \notin DOMAIN cs
    THEN [pm EXCEPT !.missing = Append(@, name)]
    ELSE LET pm1 == IF cs[name].status # "completed"
                    THEN [pm EXCEPT !.pending =
                              Append(@, name \o " (" \o cs[name].status \o ")")]
                    ELSE pm
         IN IF cs[name].conclusion # JStr("success")
            THEN [pm1 EXCEPT !.pending =
                      Append(@, name \o " (" \o Fmt(cs[name].conclusion) \o ")")]
            ELSE pm1

\* Mutant: line 52 reads checks.get(name, {}) and the record's fields with
\* .get, so a check without a record has status None and is put in pending.
ClassifyOne_AbsentIsPending(name, cs, pm) ==
    IF name \notin DOMAIN cs
    THEN [pm EXCEPT !.pending = Append(@, name \o " (None)")]
    ELSE IF cs[name].status # "completed"
    THEN [pm EXCEPT !.pending = Append(@, name \o " (" \o cs[name].status \o ")")]
    ELSE IF cs[name].conclusion # JStr("success")
    THEN [pm EXCEPT !.pending =
              Append(@, name \o " (" \o Fmt(cs[name].conclusion) \o ")")]
    ELSE pm

\* Mutant: the conclusion is tested before the status.
ClassifyOne_ConclusionFirst(name, cs, pm) ==
    IF name \notin DOMAIN cs
    THEN [pm EXCEPT !.missing = Append(@, name)]
    ELSE IF cs[name].conclusion # JStr("success")
    THEN [pm EXCEPT !.pending =
              Append(@, name \o " (" \o Fmt(cs[name].conclusion) \o ")")]
    ELSE IF cs[name].status # "completed"
    THEN [pm EXCEPT !.pending = Append(@, name \o " (" \o cs[name].status \o ")")]
    ELSE pm

\* Mutant: line 58 formats the status, as line 56 does.
ClassifyOne_StatusTwice(name, cs, pm) ==
    IF name \notin DOMAIN cs
    THEN [pm EXCEPT !.missing = Append(@, name)]
    ELSE IF cs[name].status # "completed"
    THEN [pm EXCEPT !.pending = Append(@, name \o " (" \o cs[name].status \o ")")]
    ELSE IF cs[name].conclusion # JStr("success")
    THEN [pm EXCEPT !.pending = Append(@, name \o " (" \o cs[name].status \o ")")]
    ELSE pm

\* Mutant: a check that has been seen completed/success is remembered as
\* satisfied and not looked at again.
ClassifyOne_Cached(name, cs, pm) ==
    IF name \in ever_green THEN pm
    ELSE IF name \notin DOMAIN cs
    THEN [pm EXCEPT !.missing = Append(@, name)]
    ELSE IF cs[name].status # "completed"
    THEN [pm EXCEPT !.pending = Append(@, name \o " (" \o cs[name].status \o ")")]
    ELSE IF cs[name].conclusion # JStr("success")
    THEN [pm EXCEPT !.pending =
              Append(@, name \o " (" \o Fmt(cs[name].conclusion) \o ")")]
    ELSE pm

\* Lines 52-58: one pass of the loop body, on pm = [pending, missing].
ClassifyOne(name, cs, pm) ==
    IF name \notin DOMAIN cs
    THEN [pm EXCEPT !.missing = Append(@, name)]
    ELSE IF cs[name].status # "completed"
    THEN [pm EXCEPT !.pending = Append(@, name \o " (" \o cs[name].status \o ")")]
    ELSE IF cs[name].conclusion # JStr("success")
    THEN [pm EXCEPT !.pending =
              Append(@, name \o " (" \o Fmt(cs[name].conclusion) \o ")")]
    ELSE pm

\* Mutant: after the required names the loop also goes over the other names
\* of checks (`for name in checks`).
RECURSIVE ClassifyAll_EveryCheck(_, _, _)
ClassifyAll_EveryCheck(names, cs, pm) ==
    IF names = <<>>
    THEN IF OtherCheck \in DOMAIN cs THEN ClassifyOne(OtherCheck, cs, pm) ELSE pm
    ELSE ClassifyAll_EveryCheck(Tail(names), cs, ClassifyOne(Head(names), cs, pm))

\* Lines 51-58: the loop over the required names, in their order.
RECURSIVE ClassifyAll(_, _, _)
ClassifyAll(names, cs, pm) ==
    IF names = <<>> THEN pm
    ELSE ClassifyAll(Tail(names), cs, ClassifyOne(Head(names), cs, pm))

\* Lines 48-49: both lists start empty in every iteration.
EmptyLists == [pending |-> <<>>, missing |-> <<>>]

\* Lines 46-58.
Classify ==
    /\ pc = "classify"
    /\ checks' = ChecksOf(data)
    /\ LET pm == ClassifyAll(REQUIRED_CHECKS, checks', EmptyLists)
       IN /\ pending' = pm.pending
          /\ missing' = pm.missing
    /\ pc' = "decide"
    /\ UNCHANGED <<environ, ever_green, config, attempt, response, data, stdout, exit_code,
                   exception, outcome, requests, sleeps, first_green>>

\* ---------------------------------------------------------------- decision

\* Mutant: line 60 tests pending only.
AllPassed_IgnoresMissing(p, m) == p = <<>>

\* `not pending and not missing`, line 60.
AllPassed(p, m) == p = <<>> /\ m = <<>>

\* Mutant: line 64 compares with max_retries.
AttemptsRemain_OffByOne(a) == a < max_retries

\* `attempt < max_retries - 1`, line 64.
AttemptsRemain(a) == a < max_retries - 1

\* Mutant: the success line is printed but main() does not return; the
\* iteration ends like one that has to wait.
Success_NoReturn ==
    /\ pc = "decide"
    /\ pending = <<>> /\ missing = <<>>
    /\ stdout' = Append(stdout, "All required checks passed!")
    /\ pc' = "sleep"
    /\ UNCHANGED <<environ, ever_green, config, attempt, locals, exit_code, exception,
                   outcome, requests, sleeps, first_green>>

\* Lines 60-62: main() returns, the process ends with exit status 0.  (The
\* printed lines leave out the emoji that begins them in the source.)
Success ==
    /\ pc = "decide"
    /\ AllPassed(pending, missing)
    /\ stdout' = Append(stdout, "All required checks passed!")
    /\ exit_code' = 0
    /\ outcome' = "success"
    /\ pc' = "done"
    /\ UNCHANGED <<environ, ever_green, config, attempt, locals, exception, requests,
                   sleeps, first_green>>

\* Mutant: the `if missing:` of line 65 is left out.
ProgressLines_AlwaysWaiting(a, p, m) ==
    <<"  Waiting for: " \o Join(m, ", ") \o " (not started)">>
    \o (IF p # <<>> THEN <<"  In progress: " \o Join(p, ", ")>> ELSE <<>>)
    \o <<"  Retry " \o ToString(a + 1) \o "/" \o ToString(max_retries)
            \o " in 10s...">>

\* Lines 65-69: the progress notice of an attempt that is not the last.
ProgressLines(a, p, m) ==
    (IF m # <<>>
     THEN <<"  Waiting for: " \o Join(m, ", ") \o " (not started)">> ELSE <<>>)
    \o (IF p # <<>> THEN <<"  In progress: " \o Join(p, ", ")>> ELSE <<>>)
    \o <<"  Retry " \o ToString(a + 1) \o "/" \o ToString(max_retries)
            \o " in 10s...">>

\* Lines 60-69: some check is not green and attempts remain.
Retry ==
    /\ pc = "decide"
    /\ ~AllPassed(pending, missing)
    /\ AttemptsRemain(attempt)
    /\ stdout' = stdout \o ProgressLines(attempt, pending, missing)
    /\ pc' = "sleep"
    /\ UNCHANGED <<environ, ever_green, config, attempt, locals, exit_code, exception,
                   outcome, requests, sleeps, first_green>>

\* Mutant: the loop is a `while True` whose counter is never stepped.
Sleep_KeepsAttempt ==
    /\ pc = "sleep"
    /\ sleeps' = sleeps + 1
    /\ response' = Unbound /\ data' = Unbound /\ checks' = Unbound
    /\ pending' = UnboundList /\ missing' = UnboundList
    /\ stdout' = <<>>
    /\ pc' = "request"
    /\ UNCHANGED <<environ, ever_green, config, attempt, exit_code, exception, outcome,
                   requests, first_green>>

\* Line 70 and the step of the for loop: after the sleep the next iteration
\* begins.  response, data, checks, pending and missing are rebound by lines
\* 42-49 before anything reads them, and the lines printed so far are out:
\* the model forgets them here.
Sleep ==
    /\ pc = "sleep"
    /\ sleeps' = sleeps + 1
    /\ attempt' = attempt + 1
    /\ response' = Unbound /\ data' = Unbound /\ checks' = Unbound
    /\ pending' = UnboundList /\ missing' = UnboundList
    /\ stdout' = <<>>
    /\ pc' = "request"
    /\ UNCHANGED <<environ, ever_green, config, exit_code, exception, outcome, requests,
                   first_green>>

\* Mutant: line 73 joins missing + pending.
TimeoutLines_MissingFirst(p, m) ==
    <<"Timeout waiting for checks",
      "  Still missing or failed: " \o Join(m \o p, ", ")>>

\* Lines 72-73: the diagnostic of the last attempt.
TimeoutLines(p, m) ==
    <<"Timeout waiting for checks",
      "  Still missing or failed: " \o Join(p \o m, ", ")>>

\* Mutant: the diagnostic is printed but sys.exit(1) is not called; the loop
\* ends and main() returns, which is exit status 0.
Timeout_Returns ==
    /\ pc = "decide"
    /\ pending # <<>> \/ missing # <<>>
    /\ attempt >= max_retries - 1
    /\ stdout' = stdout \o <<"Timeout waiting for checks",
                             "  Still missing or failed: "
                                 \o Join(pending \o missing, ", ")>>
    /\ exit_code' = 0
    /\ outcome' = "timeout"
    /\ pc' = "done"
    /\ UNCHANGED <<environ, ever_green, config, attempt, locals, exception, requests,
                   sleeps, first_green>>

\* Mutant: the sleep of line 70 stands before the test of line 64, so the
\* last attempt sleeps too before it gives up.
Timeout_AfterSleep ==
    /\ pc = "decide"
    /\ pending # <<>> \/ missing # <<>>
    /\ attempt >= max_retries - 1
    /\ sleeps' = sleeps + 1
    /\ stdout' = stdout \o <<"Timeout waiting for checks",
                             "  Still missing or failed: "
                                 \o Join(pending \o missing, ", ")>>
    /\ exit_code' = 1
    /\ outcome' = "timeout"
    /\ pc' = "done"
    /\ UNCHANGED <<environ, ever_green, config, attempt, locals, exception,
                   requests, first_green>>

\* Lines 60-74 on the last attempt: sys.exit(1).
Timeout ==
    /\ pc = "decide"
    /\ ~AllPassed(pending, missing)
    /\ ~AttemptsRemain(attempt)
    /\ stdout' = stdout \o TimeoutLines(pending, missing)
    /\ exit_code' = 1
    /\ outcome' = "timeout"
    /\ pc' = "done"
    /\ UNCHANGED <<environ, ever_green, config, attempt, locals, exception, requests,
                   sleeps, first_green>>

\* ------------------------------------------------------------ specification

Next ==
    \/ ConfigMissing
    \/ ConfigOk
    \/ RequestRaises
    \/ RequestError
    \/ RequestOk
    \/ Classify
    \/ Success
    \/ Retry
    \/ Sleep
    \/ Timeout

Spec == Init /\ [][Next]_vars

\* The same program, fed plain listings, with the history ever_green.
NextHistory ==
    \/ ConfigMissing
    \/ ConfigOk
    \/ RequestRaises
    \/ RequestError
    \/ RequestOkTracked
    \/ Classify
    \/ Success
    \/ Retry
    \/ Sleep
    \/ Timeout

SpecHistory == Init /\ [][NextHistory]_vars

\* ------------------------------------------------------------ vocabulary

\* The check-runs of the response of the current iteration.
Runs == CheckRunsOf(data)

\* The elements of a list.
Elems(list) == {list[i] : i \in DOMAIN list}

\* An input counts as absent when its variable is unset or empty.
EnvAbsent(k) == k \notin DOMAIN environ \/ environ[k] = <<>>

\* One of the four inputs is absent: the credential, the owner, the commit,
\* or the repository name (neither the explicit name nor the combined one).
AnyInputAbsent ==
    \/ EnvAbsent("GITHUB_TOKEN")
    \/ EnvAbsent("GITHUB_REPOSITORY_OWNER")
    \/ EnvAbsent("GITHUB_SHA")
    \/ (EnvAbsent("GITHUB_REPOSITORY_NAME") /\ EnvAbsent("GITHUB_REPOSITORY"))

\* ------------------------------------------------------------------ claims

\* C1: when the last attempt (the max_retries-th) is decided and its response
\* leaves a required check that is not completed/success, the run ends in the
\* timeout outcome with exit status 1 after exactly max_retries requests, and
\* a run that has ended after max_retries answered requests with such a
\* response has ended in timeout, never in success.
C1_ExhaustionIsTimeout ==
    /\ [](pc = "done" /\ exception = "" /\ requests = max_retries
            /\ ~AllGreen(Runs)
          => outcome = "timeout" /\ exit_code = 1)
    /\ [](outcome = "timeout"
          => requests = max_retries /\ sleeps = max_retries - 1
             /\ ~AllGreen(Runs))
    /\ [][pc = "decide" /\ attempt = max_retries - 1 /\ ~AllGreen(Runs)
          => outcome' = "timeout" /\ exit_code' = 1 /\ pc' = "done"
             /\ requests' = max_retries]_vars

C1_Witness ==
    /\ outcome = "timeout"
    /\ requests = max_retries
    /\ ~AllGreen(Runs)

\* C2: success is reported only when the response of the same attempt holds,
\* for every required name, a record that is completed with conclusion
\* success, and the record that counts for the name (its last) is such a one;
\* no required name is without a record.
C2_SuccessOnlyAllGreen ==
    outcome = "success"
    => /\ data = response.body
       /\ requests = attempt + 1
       /\ \A n \in RequiredSet :
             /\ \E i \in DOMAIN Runs : Runs[i].name = n /\ Green(Runs[i])
             /\ LastRun(Runs, n).status = "completed"
             /\ LastRun(Runs, n).conclusion = JStr("success")

C2_Witness == outcome = "success" /\ attempt > 0 /\ Len(Runs) > 4

\* C3: once the k-th response is the first that is all completed/success,
\* exactly k requests and k-1 sleeps have been made, no further request or
\* sleep follows, and the only steps left lead to the success outcome.
C3_FirstGreenEnds ==
    /\ [](first_green > 0
          => /\ requests = first_green
             /\ sleeps = first_green - 1
             /\ pc \in {"classify", "decide", "done"}
             /\ outcome \in {"running", "success"})
    /\ [](outcome = "success" => first_green = requests)
    /\ [][first_green > 0
          => /\ pc = "classify" => pc' = "decide"
             /\ pc = "decide" => outcome' = "success"
             /\ pc # "done"
             /\ requests' = requests /\ sleeps' = sleeps]_vars

C3_Witness ==
    /\ outcome = "success"
    /\ first_green = 2
    /\ requests = 2
    /\ sleeps = 1

\* C4: when one of the four inputs is absent, the run ends in the
\* configuration error with exit status 1 in its first step, and no request
\* is ever made.
C4_ConfigErrorBeforeRequests ==
    AnyInputAbsent
    => /\ requests = 0
       /\ pc \in {"start", "done"}
       /\ pc = "done"
          => outcome = "config_error" /\ exit_code = 1 /\ attempt = 0
             /\ response = Unbound

C4_Witness ==
    /\ outcome = "config_error"
    /\ "GITHUB_TOKEN" \notin DOMAIN environ
    /\ DOMAIN environ = EnvKeys \ {"GITHUB_TOKEN"}

\* C5: a request that fails (no response, or a response with an error
\* status) ends the run at once in the failed outcome: the attempt is not
\* classified, no sleep and no request follows, whatever attempts remain.
C5_TransportFailureAborts ==
    /\ [](exception # ""
          => /\ pc = "done" /\ outcome = "transport_error" /\ exit_code = 1
             /\ checks = Unbound /\ pending = UnboundList /\ missing = UnboundList
             /\ requests = attempt + 1
             /\ sleeps = attempt)
    /\ []((response # Unbound /\ RaisesForStatus(response.status_code))
          => exception = "HTTPError" /\ data = Unbound)
    /\ [][exception = ""]_vars

C5_Witness ==
    /\ exception = "HTTPError"
    /\ response.status_code = 500
    /\ attempt = 1
    /\ AttemptsRemain(attempt)

\* What an entry of pending can be annotated with.
Annotations == {"queued", "in_progress", "completed", "None", "success", "failure"}

\* The entries pending can have of a required name; the required names
\* that pending has an entry of, and those in missing.
EntriesOf == [n \in RequiredSet |-> {n \o " (" \o a \o ")" : a \in Annotations}]
PendingNames == {n \in RequiredSet : Elems(pending) \cap EntriesOf[n] # {}}
MissingNames == Elems(missing) \cap RequiredSet

\* The required names the response shows completed/success.
SatisfiedNames ==
    {n \in RequiredSet : HasRun(Runs, n) /\ Green(LastRun(Runs, n))}

\* The iteration has classified its response.
Classified == pc \in {"decide", "sleep"} \/ outcome \in {"success", "timeout"}

\* C6: after every classification satisfied, pending and missing are pairwise
\* disjoint and together are the required checks, and the two lists hold one
\* entry for each of their names and nothing else.
C6_Partition ==
    Classified
    => LET P == PendingNames
           M == MissingNames
           S == SatisfiedNames
       IN /\ P \cap M = {}
          /\ P \cap S = {}
          /\ M \cap S = {}
          /\ P \cup M \cup S = RequiredSet
          /\ Len(pending) = Cardinality(P)
          /\ Len(missing) = Cardinality(M)
          /\ Elems(missing) \subseteq RequiredSet

C6_Witness ==
    /\ pc = "decide"
    /\ attempt = 1
    /\ PendingNames # {} /\ MissingNames # {} /\ SatisfiedNames # {}
    /\ \E n \in PendingNames :
          LastRun(Runs, n).status # "completed"
          /\ LastRun(Runs, n).conclusion # JStr("success")

\* C7: a required check is in missing exactly when the response has no
\* record of its name, and then pending has no entry of it.
C7_AbsentIsMissing ==
    Classified
    => \A n \in RequiredSet :
          /\ ~HasRun(Runs, n) => n \in Elems(missing) /\ n \notin PendingNames
          /\ n \in Elems(missing) => ~HasRun(Runs, n)

C7_Witness ==
    /\ pc = "decide"
    /\ ~HasRun(Runs, "Build Check")
    /\ "Build Check" \in Elems(missing)
    /\ HasRun(Runs, "Server Tests")

\* C8: a required check whose record has a status other than completed has
\* the entry 'name (status)' in pending, whatever its conclusion is, and no
\* other entry.
C8_NotCompletedIsPending ==
    Classified
    => \A n \in RequiredSet :
          (HasRun(Runs, n) /\ LastRun(Runs, n).status # "completed")
          => /\ (n \o " (" \o LastRun(Runs, n).status \o ")") \in Elems(pending)
             /\ \A a \in Annotations \ {LastRun(Runs, n).status} :
                   (n \o " (" \o a \o ")") \notin Elems(pending)

C8_Witness ==
    /\ pc = "decide"
    /\ HasRun(Runs, "Server Tests")
    /\ LastRun(Runs, "Server Tests").status = "in_progress"
    /\ LastRun(Runs, "Server Tests").conclusion = JStr("success")
    /\ "Server Tests (in_progress)" \in Elems(pending)

\* A required check whose record is completed with another conclusion than
\* success.
Failed(n) ==
    /\ HasRun(Runs, n)
    /\ LastRun(Runs, n).status = "completed"
    /\ LastRun(Runs, n).conclusion # JStr("success")

\* C9: a required check that is completed with a conclusion other than
\* success has the entry 'name (conclusion)' in pending; while attempts
\* remain the run then goes on to sleep and poll again, and it fails only
\* when the last attempt has been made.
C9_FailedIsPending ==
    /\ [](Classified
          => \A n \in RequiredSet :
                Failed(n)
                => (n \o " (" \o Fmt(LastRun(Runs, n).conclusion) \o ")")
                      \in Elems(pending))
    /\ []((\E n \in RequiredSet : Failed(n)) /\ pc = "done"
          => requests = max_retries /\ outcome = "timeout")
    /\ [][(pc = "decide" /\ (\E n \in RequiredSet : Failed(n))
             /\ attempt < max_retries - 1)
          => pc' = "sleep" /\ outcome' = "running" /\ exit_code' = -1]_vars

C9_Witness ==
    /\ pc = "sleep"
    /\ Failed("Server Tests")
    /\ "Server Tests (failure)" \in Elems(pending)
    /\ missing = <<>>

\* The entry of a required check that has a record and is not green.
EntryOf(n) ==
    n \o " ("
      \o (IF LastRun(Runs, n).status # "completed"
          THEN LastRun(Runs, n).status
          ELSE Fmt(LastRun(Runs, n).conclusion))
      \o ")"

\* The list a timeout has to report for the response of its attempt: the
\* entries of the checks that are there and not green, then the names of the
\* checks that are not there, both in the order of REQUIRED_CHECKS.
ExpectedReport ==
    LET NotGreen(n) == HasRun(Runs, n) /\ ~Green(LastRun(Runs, n))
        NotThere(n) == ~HasRun(Runs, n)
        p == SelectSeq(REQUIRED_CHECKS, NotGreen)
    IN [i \in 1..Len(p) |-> EntryOf(p[i])]
       \o SelectSeq(REQUIRED_CHECKS, NotThere)

\* C10: a timeout comes after exactly max_retries requests, and the list it
\* prints last is the one of the response of the last request alone: the
\* pending entries, then the missing names, each in the order of the required
\* checks.
C10_TimeoutReport ==
    outcome = "timeout"
    => /\ requests = max_retries
       /\ data = response.body
       /\ pending \o missing = ExpectedReport
       /\ ExpectedReport # <<>>
       /\ Last(stdout)
             = "  Still missing or failed: " \o Join(ExpectedReport, ", ")

C10_Witness ==
    /\ outcome = "timeout"
    /\ requests = max_retries
    /\ Failed("Server Tests")
    /\ "Server Tests (failure)" \in Elems(pending)
    /\ missing # <<>>
    /\ Len(pending) > 1


\* How a run that is over has ended, told from what it was given: an input
\* was missing, a request failed, the last response was all green, or it was
\* not after the last attempt.
EndedByConfig == pc = "done" /\ requests = 0
EndedByTransport == pc = "done" /\ requests > 0 /\ exception # ""
EndedGreen ==
    pc = "done" /\ requests > 0 /\ exception = "" /\ AllGreen(Runs)
EndedUnsatisfied ==
    pc = "done" /\ requests > 0 /\ exception = "" /\ ~AllGreen(Runs)

\* C11: the exit status is 0 exactly when the run has ended with a response
\* that is all completed/success, and it is 1 when the run has ended by a
\* missing input, by a failed request or by a timeout; while the process
\* runs it has no exit status.
C11_ExitStatus ==
    /\ pc # "done" => exit_code = -1
    /\ pc = "done" => exit_code \in {0, 1}
    /\ exit_code = 0 <=> EndedGreen
    /\ exit_code = 0 <=> outcome = "success"
    /\ EndedByConfig => exit_code = 1 /\ outcome = "config_error"
    /\ EndedByTransport => exit_code = 1 /\ outcome = "transport_error"
    /\ EndedUnsatisfied => exit_code = 1 /\ outcome = "timeout"

C11_Witness ==
    /\ EndedUnsatisfied
    /\ exit_code = 1
    /\ requests = max_retries

\* The state of the state machine the run is in.
Machine ==
    IF pc = "start" THEN "Init"
    ELSE IF pc # "done" THEN "Polling"
    ELSE IF outcome = "success" THEN "Succeeded"
    ELSE "Failed"

\* C12: every step of the run is a transition Init -> Polling, Init ->
\* Failed, Polling -> Polling, Polling -> Succeeded or Polling -> Failed;
\* Init fails exactly when an input is missing, Polling fails only by a
\* failed request or on the last attempt, it succeeds only on an all-green
\* response, and nothing happens after Succeeded or Failed.
C12_StateMachine ==
    [][/\ Machine = "Init"
          => /\ Machine' \in {"Polling", "Failed"}
             /\ Machine' = "Failed"
                <=> ~AllSet(EnvGet(environ, "GITHUB_TOKEN"),
                            EnvGet(environ, "GITHUB_REPOSITORY_OWNER"),
                            RepoOf(environ),
                            EnvGet(environ, "GITHUB_SHA"))
             /\ Machine' = "Failed" => outcome' = "config_error"
       /\ Machine = "Polling"
          => /\ Machine' \in {"Polling", "Succeeded", "Failed"}
             /\ Machine' = "Failed"
                => \/ exception' # ""
                   \/ attempt = max_retries - 1 /\ ~AllGreen(Runs)
                      /\ pc = "decide"
             /\ Machine' = "Succeeded" => AllGreen(Runs) /\ pc = "decide"
             /\ (Machine' = "Polling" /\ pc = "decide")
                => ~AllGreen(Runs) /\ attempt < max_retries - 1
       /\ Machine \notin {"Succeeded", "Failed"}]_vars

C12_Witness ==
    /\ Machine = "Failed"
    /\ outcome = "timeout"
    /\ sleeps > 0


\* ---------------------------------------------------------------- fairness

\* main() is one sequential thread that nothing outside suspends for good:
\* a step that can be taken is taken.
FairSpec == Spec /\ WF_vars(Next)

\* C13: every run comes to an end, and never makes more than max_retries
\* requests.
C13_Terminates ==
    /\ [](requests <= max_retries)
    /\ <>(pc = "done")

C13_Witness ==
    /\ pc = "done"
    /\ requests = max_retries
    /\ sleeps = max_retries - 1


\* The part of s after its last "/", all of s when it has none.
AfterLastSlash(s) ==
    LET slashes == {i \in DOMAIN s : s[i] = "/"}
    IN IF slashes = {} THEN s
       ELSE SubSeq(s, 1 + CHOOSE i \in slashes : \A j \in slashes : j <= i,
                   Len(s))

\* The explicit repository name is there (set and not empty).
HasExplicitName == ~EnvAbsent("GITHUB_REPOSITORY_NAME")

\* The repository name the claim describes.
ClaimedRepo ==
    IF HasExplicitName THEN environ["GITHUB_REPOSITORY_NAME"]
    ELSE IF EnvAbsent("GITHUB_REPOSITORY") THEN <<>>
    ELSE AfterLastSlash(environ["GITHUB_REPOSITORY"])

\* C14: once the inputs are read, the repository name is the explicit name
\* when there is one and else the part of the combined name after its last
\* "/"; every request goes to the URL of that name; and when neither is
\* there the run ends in the configuration error without a request.
C14_RepositoryName ==
    pc # "start"
    => /\ repo.str = ClaimedRepo
       /\ ~repo.is_none
       /\ requests > 0
          => url = "https://api.github.com/repos/o/" \o Str(ClaimedRepo)
                      \o "/commits/012345678/check-runs"
       /\ (~HasExplicitName /\ EnvAbsent("GITHUB_REPOSITORY"))
          => outcome = "config_error" /\ requests = 0 /\ pc = "done"

C14_Witness ==
    /\ requests > 0
    /\ ~HasExplicitName
    /\ environ["GITHUB_REPOSITORY"] = <<"o", "/", "r", "/", "s">>
    /\ repo.str = <<"s">>


C14_WitnessBothAbsent ==
    /\ pc = "done"
    /\ DOMAIN environ = EnvKeys \ {"GITHUB_REPOSITORY_NAME", "GITHUB_REPOSITORY"}
    /\ ~EnvAbsent("GITHUB_TOKEN")
    /\ outcome = "config_error"


\* C15: a required check that an earlier response showed completed/success
\* and the current one does not is in pending or missing again; success is
\* reported only on a response that is all green itself, and a run that ends
\* on a response that is not ends in timeout after max_retries requests, also
\* when every required check has been green in some response.
C15_NoCarryOver ==
    /\ Classified
       => \A n \in ever_green \ GreenNames(Runs) :
             n \in PendingNames \cup MissingNames
    /\ outcome = "success" => AllGreen(Runs)
    /\ (pc = "done" /\ requests > 0 /\ exception = "" /\ ~AllGreen(Runs))
       => outcome = "timeout" /\ requests = max_retries

C15_Witness ==
    /\ outcome = "timeout"
    /\ ever_green = RequiredSet
    /\ first_green = 0
    /\ GreenNames(Runs) = {}


\* C16: requests and sleeps alternate, beginning with a request.  A request
\* is made only when as many sleeps as requests have been made; a sleep only
\* after an answered request whose response is not all green, with attempts
\* left, when one sleep fewer than requests has been made; after a sleep the
\* next step is a request.  So sleeps <= requests always, and a run that has
\* ended in success or timeout has made requests - 1 sleeps.
C16_Alternation ==
    /\ [](sleeps <= requests /\ requests <= sleeps + 1)
    /\ [](outcome \in {"success", "timeout"} => sleeps = requests - 1)
    /\ [](exception # "" => sleeps = requests - 1)
    /\ [][requests' # requests
          => requests' = requests + 1 /\ sleeps = requests /\ sleeps' = sleeps]_vars
    /\ [][sleeps' # sleeps
          => /\ sleeps' = sleeps + 1 /\ requests = sleeps + 1
             /\ requests' = requests
             /\ exception = "" /\ ~AllGreen(Runs)
             /\ attempt < max_retries - 1
             /\ outcome' = "running"
             /\ pc' = "request"]_vars
    /\ [][pc = "request" => requests' = requests + 1]_vars

C16_Witness ==
    /\ pc = "request"
    /\ sleeps = 2
    /\ requests = 2


\* The pending entries and the missing names the response of the current
\* iteration calls for, each in the order of the required checks.
ExpectedPending ==
    LET NotGreen(n) == HasRun(Runs, n) /\ ~Green(LastRun(Runs, n))
        p == SelectSeq(REQUIRED_CHECKS, NotGreen)
    IN [i \in 1..Len(p) |-> EntryOf(p[i])]
ExpectedMissing ==
    LET NotThere(n) == ~HasRun(Runs, n)
    IN SelectSeq(REQUIRED_CHECKS, NotThere)

\* The lines of a progress notice, and every line that ends one.
WaitingLine ==
    "  Waiting for: " \o Join(ExpectedMissing, ", ") \o " (not started)"
InProgressLine == "  In progress: " \o Join(ExpectedPending, ", ")
RetryLineOf(k) == "  Retry " \o ToString(k) \o "/30 in 10s..."
RetryLines == {RetryLineOf(k) : k \in 1..max_retries}

\* The notice the current iteration has to print when it is not the last.
ExpectedNotice ==
    (IF ExpectedMissing # <<>> THEN <<WaitingLine>> ELSE <<>>)
    \o (IF ExpectedPending # <<>> THEN <<InProgressLine>> ELSE <<>>)
    \o <<RetryLineOf(attempt + 1)>>

\* The lines of the current iteration: the first one still shows the two
\* lines printed before the loop.
IterationLines == IF attempt = 0 THEN SubSeq(stdout, 3, Len(stdout)) ELSE stdout

\* C17: an iteration prints a progress notice exactly when its response is
\* not all green and attempts remain; the notice has the 'Waiting for' line
\* exactly when a check is missing, the 'In progress' line exactly when one
\* is pending, and ends with the retry line; the last attempt prints the
\* timeout diagnostic and a successful one the success line, without a retry
\* line.
C17_ProgressNotice ==
    /\ [](pc = "sleep"
          => /\ ~AllGreen(Runs) /\ attempt < max_retries - 1
             /\ IterationLines = ExpectedNotice)
    /\ [](pc \in {"request", "classify", "decide"}
          => Elems(stdout) \cap RetryLines = {})
    /\ [](outcome = "timeout"
          => /\ Elems(stdout) \cap RetryLines = {}
             /\ IterationLines
                  = <<"Timeout waiting for checks",
                      "  Still missing or failed: "
                          \o Join(ExpectedPending \o ExpectedMissing, ", ")>>)
    /\ [](outcome = "success"
          => IterationLines = <<"All required checks passed!">>)
    /\ [][(pc = "decide" /\ ~AllGreen(Runs) /\ attempt < max_retries - 1)
          => pc' = "sleep"]_vars

C17_Witness ==
    /\ pc = "sleep"
    /\ attempt = 1
    /\ ExpectedMissing = <<>>
    /\ Len(ExpectedPending) = 2
    /\ stdout = <<InProgressLine, RetryLineOf(2)>>


\* The records of a response whose names are required.
RequiredOnly(l) ==
    LET IsRequired(r) == r.name \in RequiredSet
    IN SelectSeq(l, IsRequired)

\* The index of the last record of n in l.
LastIndex(l, n) ==
    CHOOSE i \in DOMAIN l :
        l[i].name = n /\ \A j \in DOMAIN l : l[j].name = n => j <= i

\* The entry a record that is not completed/success gets.
EntryFor(r) ==
    r.name \o " (" \o (IF r.status # "completed" THEN r.status
                       ELSE Fmt(r.conclusion)) \o ")"

\* The pending entries and missing names a list of records calls for.
PendingFor(l) ==
    LET NotGreen(n) == HasRun(l, n) /\ ~Green(l[LastIndex(l, n)])
        p == SelectSeq(REQUIRED_CHECKS, NotGreen)
    IN [i \in 1..Len(p) |-> EntryFor(l[LastIndex(l, p[i])])]
MissingFor(l) ==
    LET NotThere(n) == ~HasRun(l, n)
    IN SelectSeq(REQUIRED_CHECKS, NotThere)

\* What the iteration decides for a list of records in attempt a.
DecisionFor(l, a) ==
    IF PendingFor(l) = <<>> /\ MissingFor(l) = <<>> THEN "success"
    ELSE IF a < max_retries - 1 THEN "running"
    ELSE "timeout"

\* C18: the lists of every iteration and its decision (success, another
\* attempt, or timeout) are those of the records of the required names
\* alone; so are the lines it prints: two runs whose responses agree on these
\* records make the same requests and end alike.
C18_OtherChecksIgnored ==
    /\ [](Classified
          => /\ pending = PendingFor(RequiredOnly(Runs))
             /\ missing = MissingFor(RequiredOnly(Runs)))
    /\ [](pc = "decide"
          => DOMAIN checks \cap RequiredSet
                = {RequiredOnly(Runs)[i].name : i \in DOMAIN RequiredOnly(Runs)})
    /\ [][pc = "decide"
          => /\ outcome' = DecisionFor(RequiredOnly(Runs), attempt)
             /\ requests' = requests
             /\ outcome' = "running" => pc' = "sleep"
             /\ outcome' # "running" => pc' = "done"]_vars

C18_Witness ==
    /\ outcome = "success"
    /\ Len(Runs) = 5
    /\ Runs[1] = Run(OtherCheck, "completed", JStr("failure"))

\* The records of n in a response.
RecordsOf(l, n) == {i \in DOMAIN l : l[i].name = n}

\* C19: a required name with several records in one response is classified
\* by the last of them: checks holds that record, the name is satisfied
\* exactly when that record is completed/success, and it has the entry of
\* that record otherwise, whatever the earlier records say.
C19_LastRecordWins ==
    Classified
    => \A n \in RequiredSet :
          Cardinality(RecordsOf(Runs, n)) > 1
          => LET last ==
                   Runs[CHOOSE i \in RecordsOf(Runs, n) :
                           \A j \in RecordsOf(Runs, n) : j <= i]
             IN /\ checks[n] = last
                /\ n \notin MissingNames
                /\ Green(last) => n \notin PendingNames
                /\ ~Green(last)
                   => /\ EntryFor(last) \in Elems(pending)
                      /\ outcome # "success"

C19_Witness ==
    /\ outcome = "success"
    /\ Cardinality(RecordsOf(Runs, "Server Tests")) = 2
    /\ Runs[1] = Run("Server Tests", "in_progress", JStr("success"))

C19_WitnessLastFails ==
    /\ pc = "sleep"
    /\ Cardinality(RecordsOf(Runs, "Server Tests")) = 2
    /\ Runs[1] = Run("Server Tests", "completed", JStr("success"))
    /\ "Server Tests (failure)" \in Elems(pending)

====
